---------------------------- MODULE Spec2Model ----------------------------
(***************************************************************************)
(* Clinic-management backend (express + mongoose): the login handler, the  *)
(* two auth middlewares, the admin and doctor routers, the admin seeder    *)
(* and the server start-up, as a state machine over the document store.    *)
(*                                                                         *)
(* Time is counted in hours.  An ObjectId is an integer.  A bcrypt hash is *)
(* a record that remembers the plaintext it was made from; a password      *)
(* stored without hashing is a record of kind "raw".  A JWT is a record of *)
(* its payload and an ideal MAC over the payload under the signing key.    *)
(***************************************************************************)
EXTENDS Integers, Sequences, FiniteSets, TLC

VARIABLES
  started,       \* app.listen has run
  jwtSecret,     \* process.env.JWT_SECRET
  now,           \* the wall clock, in hours
  users,         \* User collection
  doctors,       \* Doctor collection
  admins,        \* Admin collection
  appointments,  \* Appointment collection, a sequence: _id = position
  prescriptions, \* Prescription collection, a sequence: _id = position
  tokens,        \* tokens handed out by the login routes (held by clients)
  seeder,        \* position of a run of createAdmin()
  resp,          \* the response on the wire, with the request it answers
  failures,      \* history: the (status, error) pairs with which POST
                 \* /api/login has refused a request that names a stored
                 \* account with one field changed
  pending        \* the POST /api/doctor/prescribe-medication requests in
                 \* flight, each at its position in the handler

vars == <<started, jwtSecret, now, users, doctors, admins, appointments,
          prescriptions, tokens, seeder, resp, failures, pending>>

store == <<users, doctors, admins, appointments, prescriptions>>

-----------------------------------------------------------------------------
(* Bounds of the model *)

MaxClock == 26
MaxIssueTime == 1
MaxTokens == 1
MaxDoctors == 3
MaxAdmins == 2
MaxAppts == 2
MaxRx == 1
GateMaxNew == 1
MaxWalkIns == 2
MaxInFlight == 2

-----------------------------------------------------------------------------
(* Values *)

Undefined == "undefined"

\* no ObjectId: falsy, as a missing id is
NoId == 0

SeedEmail == "admin@gmail.com"
SeedPassword == "admin123"

Roles == {"patient", "doctor", "admin"}

NoSecret == Undefined
Secret == "s3cret"
EvilSecret == "evil"

LoginTTL == 24
AdminTTL == 1

-----------------------------------------------------------------------------
(* bcrypt *)

bcryptHash(password) == [kind |-> "bcrypt", of |-> password]

RawPassword(password) == [kind |-> "raw", of |-> password]

NoPassword == [kind |-> "none", of |-> Undefined]

\* compare() is false for a stored value that is not a bcrypt hash
bcryptCompare(password, stored) ==
  stored.kind = "bcrypt" /\ stored.of = password

-----------------------------------------------------------------------------
(* jsonwebtoken *)

HMAC(key, id, role, iat, exp) == <<key, id, role, iat, exp>>

jwtSign(id, role, key, ttl, t) ==
  [wellFormed |-> TRUE, id |-> id, role |-> role, iat |-> t, exp |-> t + ttl,
   sig |-> HMAC(key, id, role, t, t + ttl)]

Garbage ==
  [wellFormed |-> FALSE, id |-> NoId, role |-> Undefined, iat |-> 0,
   exp |-> 0, sig |-> <<>>]

NoUser == [id |-> NoId, role |-> Undefined, iat |-> 0, exp |-> 0]

Payload(token) ==
  [id |-> token.id, role |-> token.role, iat |-> token.iat, exp |-> token.exp]

\* verify() with ignoreExpiration
jwtVerifyOk_NoExpiry(token, key, t) ==
  /\ key # NoSecret
  /\ token.wellFormed
  /\ token.sig = HMAC(key, token.id, token.role, token.iat, token.exp)

\* verify() throws for a malformed token, a bad signature, a missing key, or
\* a token whose exp is not after the clock
jwtVerifyOk(token, key, t) ==
  /\ key # NoSecret
  /\ token.wellFormed
  /\ token.sig = HMAC(key, token.id, token.role, token.iat, token.exp)
  /\ t < token.exp


-----------------------------------------------------------------------------
(* The Authorization header and the two auth middlewares *)

NoHeader == [present |-> FALSE, scheme |-> "", empty |-> TRUE, token |-> Garbage]

\* "Bearer " and nothing after it
EmptyBearer ==
  [present |-> TRUE, scheme |-> "Bearer ", empty |-> TRUE, token |-> Garbage]

Bearer(token) ==
  [present |-> TRUE, scheme |-> "Bearer ", empty |-> FALSE, token |-> token]

\* the token sent without the "Bearer " prefix: replace() leaves it as it is
Bare(token) ==
  [present |-> TRUE, scheme |-> "", empty |-> FALSE, token |-> token]

\* req.header('Authorization')?.replace('Bearer ', '') is undefined or ''
NoToken(header) == ~header.present \/ header.empty

Rejected(status, error) ==
  [ok |-> FALSE, status |-> status, error |-> error, user |-> NoUser]

Accepted(user) == [ok |-> TRUE, status |-> 0, error |-> "", user |-> user]

\* jwt.decode in place of jwt.verify: the payload is read, nothing is checked
authDoctor_DecodeOnly(header) ==
  IF NoToken(header) THEN Rejected(401, "No token provided")
  ELSE IF header.token.wellFormed
       THEN Accepted(Payload(header.token))
       ELSE Rejected(401, "Invalid token")

authDoctor(header) ==
  IF NoToken(header) THEN Rejected(401, "No token provided")
  ELSE IF jwtVerifyOk(header.token, jwtSecret, now)
       THEN Accepted(Payload(header.token))
       ELSE Rejected(401, "Invalid token")

authAdmin(header) ==
  IF NoToken(header) THEN Rejected(401, "No token provided")
  ELSE IF jwtVerifyOk(header.token, jwtSecret, now)
       THEN IF header.token.id = NoId
            THEN Rejected(401, "Invalid token payload")
            ELSE Accepted(Payload(header.token))
       ELSE Rejected(401, "Invalid token")

\* what a client can put in the header: nothing, a token it was given, a
\* token it altered or signed itself, or noise
Tampered(token) == [token EXCEPT !.role = "admin"]

SelfSigned == jwtSign(21, "admin", EvilSecret, LoginTTL, 0)

Headers ==
  {NoHeader, EmptyBearer, Bearer(Garbage), Bearer(SelfSigned)}
    \cup {Bearer(t) : t \in tokens}
    \cup {Bare(t) : t \in tokens}
    \cup {Bearer(Tampered(t)) : t \in tokens}

-----------------------------------------------------------------------------
(* Responses *)

NoBody == [none |-> TRUE]

Resp(route, status, error, ran, user, req, body) ==
  [route |-> route, status |-> status, error |-> error, ran |-> ran,
   user |-> user, req |-> req, body |-> body]

\* the response of a guarded route whose middleware did not call next()
Refuse(route, a, req) == Resp(route, a.status, a.error, FALSE, NoUser, req, NoBody)

NoResp == Resp("", 0, "", FALSE, NoUser, NoBody, NoBody)

\* the server is listening and the last response has been read: requests
\* are served one at a time
Serving == started /\ resp = NoResp

\* the connections on which a prescribe-medication request can be in flight
Slots == 1 .. MaxInFlight

\* a connection with no request on it
Idle ==
  [pc |-> "idle", req |-> NoBody, user |-> NoUser, prescription |-> NoBody,
   id |-> NoId, status |-> 0]

NoPending == [s \in Slots |-> Idle]

\* the client reads the response
Deliver ==
  /\ resp # NoResp
  /\ resp' = NoResp
  /\ UNCHANGED <<started, jwtSecret, now, users, doctors, admins, appointments,
                 prescriptions, tokens, seeder, failures,
                 pending>>

-----------------------------------------------------------------------------
(* Documents *)

Doc(id, email, password, role, licenseNumber) ==
  [id |-> id, email |-> email, password |-> password, role |-> role,
   licenseNumber |-> licenseNumber]

Null == Doc(NoId, Undefined, NoPassword, Undefined, Undefined)

\* Model.findOne(filter): a matching document or null
FindOne(collection, email) ==
  IF \E d \in collection : d.email = email
  THEN CHOOSE d \in collection : d.email = email
  ELSE Null

FindById(collection, id) ==
  IF \E d \in collection : d.id = id
  THEN CHOOSE d \in collection : d.id = id
  ELSE Null

\* the unique index on email (and, for doctors, on licenseNumber): error 11000
DuplicateKey(collection, doc) ==
  \E d \in collection :
    /\ d.id # doc.id
    /\ \/ d.email = doc.email
       \/ doc.licenseNumber # Undefined /\ d.licenseNumber = doc.licenseNumber

NewDoctorId == 11 + Cardinality(doctors)
NewAdminId == 21 + Cardinality(admins)

-----------------------------------------------------------------------------
(* server.js: the process starts listening.  createAdmin is imported there *)
(* and never called.                                                       *)

ServerStart ==
  /\ ~started
  /\ started' = TRUE
  /\ UNCHANGED <<jwtSecret, now, store, tokens, seeder, resp, failures,
                 pending>>

-----------------------------------------------------------------------------
(* createAdmin.js: findOne, then save; the two awaits are two steps *)

\* models/Admin.js: the schema stores the password field as it is given
AdminPassword(password) == password

SeedAdmin(id) ==
  Doc(id, SeedEmail, AdminPassword(RawPassword(SeedPassword)), "admin", Undefined)

createAdminFind ==
  /\ seeder = "idle"
  /\ seeder' = IF FindOne(admins, SeedEmail) # Null THEN "idle" ELSE "saving"
  /\ UNCHANGED <<started, jwtSecret, now, store, tokens, resp, failures,
                 pending>>

createAdminSave ==
  /\ seeder = "saving"
  /\ seeder' = "idle"
  /\ admins' = IF DuplicateKey(admins, SeedAdmin(NewAdminId))
               THEN admins
               ELSE admins \cup {SeedAdmin(NewAdminId)}
  /\ UNCHANGED <<started, jwtSecret, now, users, doctors, appointments,
                 prescriptions, tokens, resp, failures,
                 pending>>

-----------------------------------------------------------------------------
(* routes/login.js: POST /api/login *)

LoginLookup(email, role) ==
  IF role = "doctor" THEN FindOne(doctors, email)
  ELSE IF role = "admin" THEN FindOne(admins, email)
  ELSE FindOne({u \in users : u.role = role}, email)

LoginReq(email, password, role) ==
  [email |-> email, password |-> password, role |-> role]

LoginError(user, password) ==
  IF user = Null THEN "Invalid email or role"
  ELSE IF user.password = NoPassword THEN "Invalid user data"
  ELSE IF ~bcryptCompare(password, user.password) THEN "Invalid password"
  ELSE ""

\* every stored account, whatever its collection
Identities == users \cup doctors \cup admins

\* the triple is the email, password and role of a stored account
Matches(email, password, role) ==
  \E u \in Identities :
    u.email = email /\ u.password.of = password /\ u.role = role

\* the account the triple is that of (emails are unique within a role)
Account(email, role) ==
  CHOOSE u \in Identities : u.email = email /\ u.role = role

\* the triple is that of a stored account with exactly one field changed
\* (all three fields given), and is not itself that of a stored account
Mutated(email, password, role) ==
  /\ Undefined \notin {email, password, role}
  /\ ~Matches(email, password, role)
  /\ \E u \in Identities :
       \/ u.email # email /\ u.password.of = password /\ u.role = role
       \/ u.email = email /\ u.password.of # password /\ u.role = role
       \/ u.email = email /\ u.password.of = password /\ u.role # role

Login(email, password, role) ==
  LET req == LoginReq(email, password, role)
      user == LoginLookup(email, role)
      token == jwtSign(user.id, user.role, jwtSecret, LoginTTL, now)
      Fail(status, error) ==
        /\ resp' = Resp("POST /api/login", status, error, TRUE, NoUser, req, NoBody)
        /\ tokens' = tokens
        /\ failures' = IF Mutated(email, password, role)
                       THEN failures \cup {<<status, error>>}
                       ELSE failures
  IN
  /\ Serving
  /\ IF email = Undefined \/ password = Undefined \/ role = Undefined
     THEN Fail(400, "Email, password, and role are required")
     ELSE IF LoginError(user, password) # ""
     THEN Fail(400, LoginError(user, password))
     ELSE IF jwtSecret = NoSecret
     THEN Fail(500, "Server configuration error")
     ELSE /\ resp' = Resp("POST /api/login", 200, "", TRUE, NoUser, req,
                          [token |-> token, role |-> user.role])
          /\ tokens' = tokens \cup {token}
          /\ failures' = failures
  /\ UNCHANGED <<started, jwtSecret, now, store, seeder, pending>>

-----------------------------------------------------------------------------
(* routes/admin.js *)

\* POST /api/admin/login
AdminLogin(email, password) ==
  LET req == LoginReq(email, password, "admin")
      admin == FindOne(admins, email)
      token == jwtSign(admin.id, "admin", jwtSecret, AdminTTL, now)
      Fail(status, error) ==
        /\ resp' = Resp("POST /api/admin/login", status, error, TRUE, NoUser, req,
                        NoBody)
        /\ tokens' = tokens
  IN
  /\ Serving
  /\ IF admin = Null THEN Fail(400, "Invalid credentials")
     \* bcrypt.compare throws without its two arguments
     ELSE IF password = Undefined \/ admin.password = NoPassword
     THEN Fail(500, "Server error")
     ELSE IF ~bcryptCompare(password, admin.password)
     THEN Fail(400, "Invalid credentials")
     \* jwt.sign throws without a key
     ELSE IF jwtSecret = NoSecret THEN Fail(500, "Server error")
     ELSE /\ resp' = Resp("POST /api/admin/login", 200, "", TRUE, NoUser, req,
                          [token |-> token, role |-> Undefined])
          /\ tokens' = tokens \cup {token}
  /\ UNCHANGED <<started, jwtSecret, now, store, seeder, failures,
                 pending>>

IsAdmin_AnyRole(user) == user.role \in Roles

\* the role check of add-doctor and add-admin
IsAdmin(user) == user.role = "admin"

NewDoctorReq(email, licenseNumber, password) ==
  [email |-> email, licenseNumber |-> licenseNumber, password |-> password]

\* POST /api/admin/add-doctor
AddDoctor(header, email, licenseNumber, password) ==
  LET route == "POST /api/admin/add-doctor"
      a == authAdmin(header)
      req == [header |-> header,
              doc |-> NewDoctorReq(email, licenseNumber, password)]
      doctor == Doc(NewDoctorId, email, bcryptHash(password), "doctor",
                    licenseNumber)
      Fail(status, error) ==
        /\ resp' = Resp(route, status, error, TRUE, a.user, req, NoBody)
        /\ doctors' = doctors
  IN
  /\ Serving
  /\ IF ~a.ok THEN resp' = Refuse(route, a, req) /\ doctors' = doctors
     ELSE IF ~IsAdmin(a.user) THEN Fail(403, "Not authorized to add doctors")
     \* bcrypt.hash throws without a password
     ELSE IF password = Undefined THEN Fail(400, "data and salt arguments required")
     ELSE IF DuplicateKey(doctors, doctor)
     THEN Fail(400, "Email or license number already exists")
     ELSE /\ resp' = Resp(route, 201, "", TRUE, a.user, req, NoBody)
          /\ doctors' = doctors \cup {doctor}
  /\ UNCHANGED <<started, jwtSecret, now, users, admins, appointments,
                 prescriptions, tokens, seeder, failures,
                 pending>>

\* POST /api/admin/add-admin
AddAdmin(header, email, password) ==
  LET route == "POST /api/admin/add-admin"
      a == authAdmin(header)
      req == [header |-> header, doc |-> NewDoctorReq(email, Undefined, password)]
      admin == Doc(NewAdminId, email, bcryptHash(password), "admin", Undefined)
      Fail(status, error) ==
        /\ resp' = Resp(route, status, error, TRUE, a.user, req, NoBody)
        /\ admins' = admins
  IN
  /\ Serving
  /\ IF ~a.ok THEN resp' = Refuse(route, a, req) /\ admins' = admins
     ELSE IF ~IsAdmin(a.user) THEN Fail(403, "Not authorized to add admins")
     ELSE IF password = Undefined THEN Fail(400, "data and salt arguments required")
     ELSE IF DuplicateKey(admins, admin) THEN Fail(400, "Email already exists")
     ELSE /\ resp' = Resp(route, 201, "", TRUE, a.user, req, NoBody)
          /\ admins' = admins \cup {admin}
  /\ UNCHANGED <<started, jwtSecret, now, users, doctors, appointments,
                 prescriptions, tokens, seeder, failures,
                 pending>>

-----------------------------------------------------------------------------
(* Query helpers *)

Ids(seq) == 1 .. Len(seq)

\* the positions in S in the collection's own (insertion) order
RECURSIVE Natural(_)
Natural(S) ==
  IF S = {} THEN <<>>
  ELSE LET m == CHOOSE x \in S : \A y \in S : x <= y
       IN <<m>> \o Natural(S \ {m})

\* .sort(): positions by ascending key, equal keys in their given order
RECURSIVE Insert(_, _, _)
Insert(x, sorted, key) ==
  IF sorted = <<>> THEN <<x>>
  ELSE IF key[x] < key[Head(sorted)] THEN <<x>> \o sorted
  ELSE <<Head(sorted)>> \o Insert(x, Tail(sorted), key)

RECURSIVE Sort(_, _)
Sort(seq, key) ==
  IF seq = <<>> THEN <<>>
  ELSE Insert(seq[Len(seq)], Sort(SubSeq(seq, 1, Len(seq) - 1), key), key)

\* the canonical time labels, which are also in string order
allTimeSlots ==
  <<"10:00 AM", "11:00 AM", "12:00 PM", "1:00 PM", "2:00 PM", "3:00 PM",
    "4:00 PM", "5:00 PM">>

OtherTime == "9:30 AM"

\* the rank of a time label in string order ("9:30 AM" sorts last)
TimeRank(time) ==
  IF \E i \in DOMAIN allTimeSlots : allTimeSlots[i] = time
  THEN CHOOSE i \in DOMAIN allTimeSlots : allTimeSlots[i] = time
  ELSE Len(allTimeSlots) + 1

\* midnight of the day of t
Midnight(t) == (t \div 24) * 24

Closed(status) == status \in {"completed", "cancelled"}

-----------------------------------------------------------------------------
(* routes/admin.js, continued *)

\* GET /api/admin/profile
AdminProfileGet(header) ==
  LET route == "GET /api/admin/profile"
      a == authAdmin(header)
      req == [header |-> header]
      admin == FindById(admins, a.user.id)
  IN
  /\ Serving
  /\ resp' = IF ~a.ok THEN Refuse(route, a, req)
             ELSE IF admin = Null
             THEN Resp(route, 404, "Admin not found", TRUE, a.user, req, NoBody)
             ELSE Resp(route, 200, "", TRUE, a.user, req,
                       [id |-> admin.id, email |-> admin.email])
  /\ UNCHANGED <<started, jwtSecret, now, store, tokens, seeder, failures,
                 pending>>

\* PUT /api/admin/profile
AdminProfilePut(header, email) ==
  LET route == "PUT /api/admin/profile"
      a == authAdmin(header)
      req == [header |-> header, email |-> email]
      admin == FindById(admins, a.user.id)
      saved == [admin EXCEPT !.email = IF email = Undefined THEN @ ELSE email]
      Fail(status, error) ==
        /\ resp' = Resp(route, status, error, TRUE, a.user, req, NoBody)
        /\ admins' = admins
  IN
  /\ Serving
  /\ IF ~a.ok THEN resp' = Refuse(route, a, req) /\ admins' = admins
     ELSE IF admin = Null THEN Fail(404, "Admin not found")
     ELSE IF DuplicateKey(admins, saved) THEN Fail(500, "Server error")
     ELSE /\ resp' = Resp(route, 200, "", TRUE, a.user, req,
                          [id |-> saved.id, email |-> saved.email])
          /\ admins' = (admins \ {admin}) \cup {saved}
  /\ UNCHANGED <<started, jwtSecret, now, users, doctors, appointments,
                 prescriptions, tokens, seeder, failures,
                 pending>>

\* a guarded GET of routes/admin.js that reads the store and answers body
AdminGet(route, header, body) ==
  LET a == authAdmin(header)
      req == [header |-> header]
  IN
  /\ Serving
  /\ resp' = IF ~a.ok THEN Refuse(route, a, req)
             ELSE Resp(route, 200, "", TRUE, a.user, req, body)
  /\ UNCHANGED <<started, jwtSecret, now, store, tokens, seeder, failures,
                 pending>>

\* GET /api/admin/total-doctors
TotalDoctors(header) ==
  AdminGet("GET /api/admin/total-doctors", header,
           [totalDoctors |-> Cardinality(doctors)])

\* GET /api/admin/total-patients
TotalPatients(header) ==
  AdminGet("GET /api/admin/total-patients", header,
           [totalPatients |-> Cardinality({u \in users : u.role = "patient"})])

\* GET /api/admin/doctor-overview
DoctorOverview(header) ==
  AdminGet("GET /api/admin/doctor-overview", header,
           {[id |-> d.id,
             patients |-> Cardinality({appointments[i].patientId :
                            i \in {j \in Ids(appointments) :
                                     appointments[j].doctorId = d.id}})]
              : d \in doctors})

\* GET /api/admin/patient-overview
PatientOverview(header) ==
  AdminGet("GET /api/admin/patient-overview", header,
           {[id |-> u.id,
             appointments |-> Cardinality({j \in Ids(appointments) :
                                appointments[j].patientId = u.id})]
              : u \in {v \in users : v.role = "patient"}})

\* GET /api/admin/appointment/completed-cancelled: latest first
AdminCompletedCancelled(header) ==
  LET found == {i \in Ids(appointments) : Closed(appointments[i].status)}
      key == [i \in Ids(appointments) |-> 0 - appointments[i].date]
  IN AdminGet("GET /api/admin/appointment/completed-cancelled", header,
              Sort(Natural(found), key))

\* GET /api/admin/appointments/upcoming: by date, then by time
AdminUpcoming(header) ==
  LET found == {i \in Ids(appointments) :
                  /\ appointments[i].status = "scheduled"
                  /\ appointments[i].date >= Midnight(now)}
      key == [i \in Ids(appointments) |->
                appointments[i].date * (Len(allTimeSlots) + 2)
                  + TimeRank(appointments[i].time)]
  IN AdminGet("GET /api/admin/appointments/upcoming", header,
              Sort(Natural(found), key))

-----------------------------------------------------------------------------
(* routes/doctor.js *)

validStatuses_Lax == <<"scheduled", "completed", "cancelled", "bogus">>

validStatuses == <<"scheduled", "completed", "cancelled">>

Includes(seq, x) == \E i \in DOMAIN seq : seq[i] = x

\* the status a new Appointment document gets from its schema
DefaultStatus == "scheduled"

Appointment(patientId, doctorId, date, time, reason, status) ==
  [patientId |-> patientId, doctorId |-> doctorId, date |-> date,
   time |-> time, reason |-> reason, status |-> status]

Prescription(patientId, doctorId, fields) ==
  [exists |-> TRUE, patientId |-> patientId, doctorId |-> doctorId,
   medication |-> fields.medication, dosage |-> fields.dosage,
   frequency |-> fields.frequency, tilldate |-> fields.tilldate]

\* what is left at the position of a deleted prescription
Deleted ==
  [exists |-> FALSE, patientId |-> NoId, doctorId |-> NoId,
   medication |-> Undefined, dosage |-> Undefined, frequency |-> Undefined,
   tilldate |-> Undefined]

RxFields(medication, dosage, frequency, tilldate) ==
  [medication |-> medication, dosage |-> dosage, frequency |-> frequency,
   tilldate |-> tilldate]

\* an update document: its undefined fields are left as they are
Update(prescription, fields) ==
  [prescription EXCEPT
     !.medication = IF fields.medication = Undefined THEN @ ELSE fields.medication,
     !.dosage = IF fields.dosage = Undefined THEN @ ELSE fields.dosage,
     !.frequency = IF fields.frequency = Undefined THEN @ ELSE fields.frequency,
     !.tilldate = IF fields.tilldate = Undefined THEN @ ELSE fields.tilldate]

\* the filter { _id } alone
OwnedAppointment_AnyDoctor(id, doctorId) == id \in Ids(appointments)

\* the filter { _id, doctorId } of findOneAndUpdate and findOneAndDelete
OwnedAppointment(id, doctorId) ==
  id \in Ids(appointments) /\ appointments[id].doctorId = doctorId

OwnedPrescription(id, doctorId) ==
  /\ id \in Ids(prescriptions)
  /\ prescriptions[id].exists
  /\ prescriptions[id].doctorId = doctorId

\* a guarded GET of routes/doctor.js that reads the store and answers body
DoctorGet(route, header, req, body) ==
  LET a == authDoctor(header)
  IN
  /\ Serving
  /\ resp' = IF ~a.ok THEN Refuse(route, a, req)
             ELSE Resp(route, 200, "", TRUE, a.user, req, body)
  /\ UNCHANGED <<started, jwtSecret, now, store, tokens, seeder, failures,
                 pending>>

\* GET /api/doctor/profile
DoctorProfileGet(header) ==
  LET route == "GET /api/doctor/profile"
      a == authDoctor(header)
      req == [header |-> header]
      doctor == FindById(doctors, a.user.id)
  IN
  /\ Serving
  /\ resp' = IF ~a.ok THEN Refuse(route, a, req)
             ELSE IF doctor = Null
             THEN Resp(route, 404, "Doctor not found", TRUE, a.user, req, NoBody)
             ELSE Resp(route, 200, "", TRUE, a.user, req,
                       [id |-> doctor.id, email |-> doctor.email])
  /\ UNCHANGED <<started, jwtSecret, now, store, tokens, seeder, failures,
                 pending>>

\* PUT /api/doctor/profile
DoctorProfilePut(header, email, licenseNumber) ==
  LET route == "PUT /api/doctor/profile"
      a == authDoctor(header)
      req == [header |-> header, email |-> email,
              licenseNumber |-> licenseNumber]
      doctor == FindById(doctors, a.user.id)
      saved == [doctor EXCEPT !.email = email, !.licenseNumber = licenseNumber]
      Fail(status, error) ==
        /\ resp' = Resp(route, status, error, TRUE, a.user, req, NoBody)
        /\ doctors' = doctors
  IN
  /\ Serving
  /\ IF ~a.ok THEN resp' = Refuse(route, a, req) /\ doctors' = doctors
     ELSE IF doctor = Null THEN Fail(404, "Doctor not found")
     ELSE IF DuplicateKey(doctors, saved) THEN Fail(500, "Server error")
     ELSE /\ resp' = Resp(route, 200, "", TRUE, a.user, req,
                          [id |-> saved.id, email |-> saved.email])
          /\ doctors' = (doctors \ {doctor}) \cup {saved}
  /\ UNCHANGED <<started, jwtSecret, now, users, admins, appointments,
                 prescriptions, tokens, seeder, failures,
                 pending>>

\* GET /api/doctor/all: not guarded
DoctorAll ==
  /\ Serving
  /\ resp' = Resp("GET /api/doctor/all", 200, "", TRUE, NoUser, NoBody,
                  {d.id : d \in doctors})
  /\ UNCHANGED <<started, jwtSecret, now, store, tokens, seeder, failures,
                 pending>>

NullDate == 0 - 1

\* the first element of a sequence of positions that satisfies the test
FirstDate(positions, past) ==
  LET hits == {k \in DOMAIN positions :
                 (appointments[positions[k]].date < now) = past}
  IN IF hits = {} THEN NullDate
     ELSE appointments[positions[CHOOSE k \in hits : \A l \in hits : k <= l]].date

\* GET /api/doctor/patients-with-appointments
PatientsWithAppointments(header) ==
  LET a == authDoctor(header)
      mine == {i \in Ids(appointments) : appointments[i].doctorId = a.user.id}
      key == [i \in Ids(appointments) |-> appointments[i].date]
      sorted == Sort(Natural(mine), key)
      patientIds == {appointments[i].patientId : i \in mine}
      patients == {u \in users : u.id \in patientIds /\ u.role = "patient"}
      Of(patient) ==
        SelectSeq(sorted, LAMBDA i : appointments[i].patientId = patient.id)
  IN DoctorGet("GET /api/doctor/patients-with-appointments", header,
               [header |-> header],
               {[id |-> u.id,
                 lastVisit |-> FirstDate(Of(u), TRUE),
                 nextAppointment |-> FirstDate(Of(u), FALSE)] : u \in patients})

\* the find() without the doctorId in its filter
AvailableSlotsOf_AnyDoctor(doctorId, date) ==
  LET booked == Natural({i \in Ids(appointments) : appointments[i].date = date})
      bookedTimes == [k \in DOMAIN booked |-> appointments[booked[k]].time]
  IN SelectSeq(allTimeSlots, LAMBDA slot : ~Includes(bookedTimes, slot))

\* allTimeSlots.filter(slot => !bookedTimes.includes(slot))
AvailableSlotsOf(doctorId, date) ==
  LET booked == Natural({i \in Ids(appointments) :
                           /\ appointments[i].doctorId = doctorId
                           /\ appointments[i].date = date})
      bookedTimes == [k \in DOMAIN booked |-> appointments[booked[k]].time]
  IN SelectSeq(allTimeSlots, LAMBDA slot : ~Includes(bookedTimes, slot))

\* GET /api/doctor/available-slots
AvailableSlots(header, date) ==
  DoctorGet("GET /api/doctor/available-slots", header,
            [header |-> header, date |-> date],
            AvailableSlotsOf(authDoctor(header).user.id, date))

\* req.body of schedule-appointment; doctorId is NoId when the client sends
\* none
ScheduleBody(doctorId, patientId, date, time, reason) ==
  [doctorId |-> doctorId, patientId |-> patientId, date |-> date,
   time |-> time, reason |-> reason]

\* the doctorId of the body is used when the client sends one
ActingDoctor_FromBody(user, body) ==
  IF body.doctorId # NoId THEN body.doctorId ELSE user.id

\* const doctorId = req.user.id
ActingDoctor(user, body) == user.id

\* POST /api/doctor/schedule-appointment
ScheduleRequest(header, body) ==
  LET route == "POST /api/doctor/schedule-appointment"
      a == authDoctor(header)
      req == [header |-> header, patientId |-> body.patientId,
              date |-> body.date, time |-> body.time, reason |-> body.reason,
              doctorId |-> body.doctorId]
      appointment ==
        Appointment(body.patientId, ActingDoctor(a.user, body), body.date,
                    body.time, body.reason, DefaultStatus)
  IN
  /\ Serving
  /\ IF ~a.ok
     THEN resp' = Refuse(route, a, req) /\ appointments' = appointments
     ELSE /\ appointments' = Append(appointments, appointment)
          /\ resp' = Resp(route, 201, "", TRUE, a.user, req,
                          [id |-> Len(appointments) + 1,
                           appointment |-> appointment])
  /\ UNCHANGED <<started, jwtSecret, now, users, doctors, admins,
                 prescriptions, tokens, seeder, failures,
                 pending>>

\* the same, with a body that names no doctorId
ScheduleAppointment(header, patientId, date, time, reason) ==
  ScheduleRequest(header, ScheduleBody(NoId, patientId, date, time, reason))

\* a save that writes over the doctor's earlier prescription for the patient
InsertPrescription_Upsert(collection, prescription) ==
  LET same == {i \in DOMAIN collection :
                 /\ collection[i].patientId = prescription.patientId
                 /\ collection[i].doctorId = prescription.doctorId}
  IN IF same = {} THEN Append(collection, prescription)
     ELSE [collection EXCEPT ![CHOOSE i \in same : TRUE] = prescription]

\* the collection after prescription.save()
InsertPrescription(collection, prescription) == Append(collection, prescription)

\* POST /api/doctor/prescribe-medication
PrescribeMedication(header, patientId, fields) ==
  LET route == "POST /api/doctor/prescribe-medication"
      a == authDoctor(header)
      req == [header |-> header, patientId |-> patientId, fields |-> fields]
      prescription == Prescription(patientId, a.user.id, fields)
  IN
  /\ Serving
  /\ IF ~a.ok
     THEN resp' = Refuse(route, a, req) /\ prescriptions' = prescriptions
     ELSE /\ prescriptions' = InsertPrescription(prescriptions, prescription)
          /\ resp' = Resp(route, 201, "", TRUE, a.user, req,
                          [id |-> Len(prescriptions) + 1,
                           prescription |-> prescription])
  /\ UNCHANGED <<started, jwtSecret, now, users, doctors, admins,
                 appointments, tokens, seeder, failures,
                 pending>>

\* POST /api/doctor/prescribe-medication, one step at a time: the
\* middleware and the handler down to the await of prescription.save()
PrescribeBegin(s, header, patientId, fields) ==
  LET a == authDoctor(header)
      req == [header |-> header, patientId |-> patientId, fields |-> fields]
  IN
  /\ started
  /\ pending[s].pc = "idle"
  /\ pending' =
       [pending EXCEPT ![s] =
          IF ~a.ok
          THEN [Idle EXCEPT !.pc = "done", !.req = req, !.status = a.status]
          ELSE [Idle EXCEPT !.pc = "saving", !.req = req, !.user = a.user,
                            !.prescription =
                              Prescription(patientId, a.user.id, fields)]]
  /\ UNCHANGED <<started, jwtSecret, now, store, tokens, seeder, resp, failures>>

\* models/Prescription.js: the fields under a unique index, besides _id
PrescriptionUnique == {}

\* the insert would break the unique index
DuplicatePrescription(collection, prescription) ==
  /\ PrescriptionUnique # {}
  /\ \E i \in DOMAIN collection :
       \A f \in PrescriptionUnique : collection[i][f] = prescription[f]

\* the store performs the insert of prescription.save(); a rejected insert
\* throws into the catch block, which answers 500
PrescribeSave(s) ==
  /\ pending[s].pc = "saving"
  /\ IF DuplicatePrescription(prescriptions, pending[s].prescription)
     THEN /\ prescriptions' = prescriptions
          /\ pending' = [pending EXCEPT ![s].pc = "done", ![s].status = 500]
     ELSE /\ prescriptions' =
               InsertPrescription(prescriptions, pending[s].prescription)
          /\ pending' = [pending EXCEPT ![s].pc = "saved",
                                        ![s].id = Len(prescriptions) + 1]
  /\ UNCHANGED <<started, jwtSecret, now, users, doctors, admins, appointments,
                 tokens, seeder, resp, failures>>

\* the await returns: res.status(201).json(...)
PrescribeRespond(s) ==
  /\ pending[s].pc = "saved"
  /\ pending' = [pending EXCEPT ![s].pc = "done", ![s].status = 201]
  /\ UNCHANGED <<started, jwtSecret, now, store, tokens, seeder, resp, failures>>

\* GET /api/doctor/prescriptions
PrescriptionsGet(header) ==
  DoctorGet("GET /api/doctor/prescriptions", header, [header |-> header],
            Natural({i \in Ids(prescriptions) :
                       OwnedPrescription(i, authDoctor(header).user.id)}))

\* GET /api/doctor/prescriptions/patient/:patientId
PrescriptionsByPatient(header, patientId) ==
  DoctorGet("GET /api/doctor/prescriptions/patient/:patientId", header,
            [header |-> header, patientId |-> patientId],
            Natural({i \in Ids(prescriptions) :
                       /\ OwnedPrescription(i, authDoctor(header).user.id)
                       /\ prescriptions[i].patientId = patientId}))

\* PUT /api/doctor/prescriptions/:id
PrescriptionPut(header, id, fields) ==
  LET route == "PUT /api/doctor/prescriptions/:id"
      a == authDoctor(header)
      req == [header |-> header, id |-> id, fields |-> fields]
  IN
  /\ Serving
  /\ IF ~a.ok
     THEN resp' = Refuse(route, a, req) /\ prescriptions' = prescriptions
     ELSE IF ~OwnedPrescription(id, a.user.id)
     THEN /\ resp' = Resp(route, 404, "Prescription not found", TRUE, a.user,
                          req, NoBody)
          /\ prescriptions' = prescriptions
     ELSE /\ prescriptions' =
               [prescriptions EXCEPT ![id] = Update(@, fields)]
          /\ resp' = Resp(route, 200, "", TRUE, a.user, req,
                          Update(prescriptions[id], fields))
  /\ UNCHANGED <<started, jwtSecret, now, users, doctors, admins,
                 appointments, tokens, seeder, failures,
                 pending>>

\* DELETE /api/doctor/prescriptions/:id
PrescriptionDelete(header, id) ==
  LET route == "DELETE /api/doctor/prescriptions/:id"
      a == authDoctor(header)
      req == [header |-> header, id |-> id]
  IN
  /\ Serving
  /\ IF ~a.ok
     THEN resp' = Refuse(route, a, req) /\ prescriptions' = prescriptions
     ELSE IF ~OwnedPrescription(id, a.user.id)
     THEN /\ resp' = Resp(route, 404, "Prescription not found", TRUE, a.user,
                          req, NoBody)
          /\ prescriptions' = prescriptions
     ELSE /\ prescriptions' = [prescriptions EXCEPT ![id] = Deleted]
          /\ resp' = Resp(route, 200, "", TRUE, a.user, req, NoBody)
  /\ UNCHANGED <<started, jwtSecret, now, users, doctors, admins,
                 appointments, tokens, seeder, failures,
                 pending>>

\* the positions of the caller's appointments that satisfy a date and status
\* test, sorted by key
MyAppointments(doctorId, from, to, statuses, key) ==
  Sort(Natural({i \in Ids(appointments) :
                  /\ appointments[i].doctorId = doctorId
                  /\ appointments[i].date >= from
                  /\ appointments[i].date < to
                  /\ appointments[i].status \in statuses}), key)

\* later than any date of the model
Never == (MaxClock + 2) * 24

ByTime == [i \in Ids(appointments) |-> TimeRank(appointments[i].time)]

ByDateThenTime ==
  [i \in Ids(appointments) |->
     appointments[i].date * (Len(allTimeSlots) + 2)
       + TimeRank(appointments[i].time)]

ByDateDescThenTime ==
  [i \in Ids(appointments) |->
     (0 - appointments[i].date) * (Len(allTimeSlots) + 2)
       + TimeRank(appointments[i].time)]

\* GET /api/doctor/appointments: today's scheduled appointments, by time
AppointmentsToday(header) ==
  DoctorGet("GET /api/doctor/appointments", header, [header |-> header],
            MyAppointments(authDoctor(header).user.id, Midnight(now),
                           Midnight(now) + 24, {"scheduled"}, ByTime))

\* the update document replaces the stored one instead of setting a field
SetStatus_Replace(appts, id, status) ==
  [appts EXCEPT ![id] = Appointment(NoId, @.doctorId, 0, Undefined, Undefined,
                                    status)]

\* the write of the status transition
SetStatus(appts, id, status) == [appts EXCEPT ![id].status = status]

\* PATCH /api/doctor/appointment/:appointmentId/:status
AppointmentStatus(header, appointmentId, status) ==
  LET route == "PATCH /api/doctor/appointment/:appointmentId/:status"
      a == authDoctor(header)
      req == [header |-> header, appointmentId |-> appointmentId,
              status |-> status]
      Fail(code, error) ==
        /\ resp' = Resp(route, code, error, TRUE, a.user, req, NoBody)
        /\ appointments' = appointments
  IN
  /\ Serving
  /\ IF ~a.ok
     THEN resp' = Refuse(route, a, req) /\ appointments' = appointments
     ELSE IF ~Includes(validStatuses, status) THEN Fail(400, "Invalid status")
     ELSE IF ~OwnedAppointment(appointmentId, a.user.id)
     THEN Fail(404, "Appointment not found or unauthorized")
     ELSE /\ appointments' = SetStatus(appointments, appointmentId, status)
          /\ resp' = Resp(route, 200, "", TRUE, a.user, req,
                          SetStatus(appointments, appointmentId, status)[appointmentId])
  /\ UNCHANGED <<started, jwtSecret, now, users, doctors, admins,
                 prescriptions, tokens, seeder, failures,
                 pending>>

\* GET /api/doctor/appointment/completed: latest first, then by time
AppointmentsCompleted(header) ==
  DoctorGet("GET /api/doctor/appointment/completed", header,
            [header |-> header],
            MyAppointments(authDoctor(header).user.id, 0, Never,
                           {"completed", "cancelled"}, ByDateDescThenTime))

\* GET /api/doctor/appointments/upcoming: from tomorrow on, by date and time
AppointmentsUpcoming(header) ==
  DoctorGet("GET /api/doctor/appointments/upcoming", header,
            [header |-> header],
            MyAppointments(authDoctor(header).user.id, Midnight(now) + 24,
                           Never, {"scheduled"}, ByDateThenTime))

-----------------------------------------------------------------------------
(* The clock *)

Tick ==
  /\ now' = now + 1
  /\ UNCHANGED <<started, jwtSecret, store, tokens, seeder, resp, failures,
                 pending>>

-----------------------------------------------------------------------------
(* The store a deployment starts from: two patients, two doctors and, when *)
(* the database is not fresh, one admin; every password stored hashed.     *)

Patients ==
  {Doc(1, "pat@x.com", bcryptHash("pw"), "patient", Undefined),
   Doc(2, "pat2@x.com", bcryptHash("pw"), "patient", Undefined)}

Doctors ==
  {Doc(11, "doc1@x.com", bcryptHash("pw"), "doctor", "L1"),
   Doc(12, "doc2@x.com", bcryptHash("pw"), "doctor", "L2")}

RootAdmin == Doc(21, "root@x.com", bcryptHash("pw"), "admin", Undefined)

Init ==
  /\ started = FALSE
  /\ jwtSecret \in {Secret, NoSecret}
  /\ now = 0
  /\ users = Patients
  /\ doctors = Doctors
  /\ admins \in {{}, {RootAdmin}}
  /\ appointments = <<>>
  /\ prescriptions = <<>>
  /\ tokens = {}
  /\ seeder = "idle"
  /\ resp = NoResp
  /\ failures = {}
  /\ pending = NoPending

-----------------------------------------------------------------------------
(* Accounts and login: the start-up, the seeder, the two login routes and  *)
(* the admin routes that write the Admin collection.                       *)

\* a token a client holds, sent as the route expects it
Held == {NoHeader} \cup {Bearer(t) : t \in tokens}

LoginEmails == {"pat@x.com", "doc1@x.com", "root@x.com", SeedEmail,
                "new@x.com", Undefined}
LoginPasswords == {"pw", SeedPassword}
AdminEmails == {SeedEmail, "new@x.com"}
DoctorEmails == {"doc1@x.com", "new@x.com"}
Licenses == {"L1", "L3"}

Cap ==
  /\ Cardinality(tokens) <= MaxTokens
  /\ Cardinality(admins) <= MaxAdmins
  /\ Cardinality(doctors) <= MaxDoctors

Next ==
  \/ ServerStart
  \/ createAdminFind
  \/ createAdminSave /\ Cap'
  \/ Deliver
  \/ \E e \in LoginEmails, p \in LoginPasswords, r \in Roles :
       Login(e, p, r) /\ Cap'
  \/ \E e \in LoginEmails, p \in LoginPasswords : AdminLogin(e, p) /\ Cap'
  \/ \E h \in Headers, e \in DoctorEmails, l \in Licenses, p \in {"pw", Undefined} :
       AddDoctor(h, e, l, p) /\ Cap'
  \/ \E h \in Headers, e \in AdminEmails, p \in {"pw", Undefined} :
       AddAdmin(h, e, p) /\ Cap'
  \/ \E h \in Headers : AdminProfileGet(h)
  \/ \E h \in Headers, e \in AdminEmails \cup {Undefined} : AdminProfilePut(h, e)
  \/ \E h \in Headers : TotalDoctors(h)
  \/ \E h \in Headers : TotalPatients(h)
  \/ \E h \in Headers : DoctorOverview(h)
  \/ \E h \in Headers : PatientOverview(h)
  \/ \E h \in Headers : AdminCompletedCancelled(h)
  \/ \E h \in Headers : AdminUpcoming(h)

Spec == Init /\ [][Next]_vars

-----------------------------------------------------------------------------
(* The gate: every guarded route of the two routers, on a running server   *)
(* whose clients hold a patient's, a doctor's and an admin's token and an  *)
(* admin token that has expired.                                           *)

GateNow == AdminTTL + 1

GateTokens ==
  {jwtSign(1, "patient", Secret, LoginTTL, 0),
   jwtSign(11, "doctor", Secret, LoginTTL, 0),
   jwtSign(21, "admin", Secret, AdminTTL, 0),
   jwtSign(21, "admin", Secret, AdminTTL, GateNow)}

InitGate ==
  /\ started = TRUE
  /\ jwtSecret = Secret
  /\ now = GateNow
  /\ users = Patients
  /\ doctors = Doctors
  /\ admins = {RootAdmin}
  /\ appointments = <<>>
  /\ prescriptions = <<>>
  /\ tokens = GateTokens
  /\ seeder = "idle"
  /\ resp = NoResp
  /\ failures = {}
  /\ pending = NoPending

\* the documents created since InitGate
Created ==
  Len(appointments) + Len(prescriptions)
    + (Cardinality(doctors) - Cardinality(Doctors))
    + (Cardinality(admins) - 1)

CapGate == Created <= GateMaxNew

SomeFields == RxFields("m1", "d1", "f1", "2026-12-31")
OtherFields == RxFields("m2", Undefined, "f2", Undefined)

NextGate ==
  \/ Deliver
  \/ \E h \in Headers : AddDoctor(h, "new@x.com", "L3", "pw") /\ CapGate'
  \/ \E h \in Headers : AddAdmin(h, "new@x.com", "pw") /\ CapGate'
  \/ \E h \in Headers : AdminProfileGet(h)
  \/ \E h \in Headers : AdminProfilePut(h, "new@x.com")
  \/ \E h \in Headers : TotalDoctors(h)
  \/ \E h \in Headers : TotalPatients(h)
  \/ \E h \in Headers : DoctorOverview(h)
  \/ \E h \in Headers : PatientOverview(h)
  \/ \E h \in Headers : AdminCompletedCancelled(h)
  \/ \E h \in Headers : AdminUpcoming(h)
  \/ \E h \in Headers : DoctorProfileGet(h)
  \/ \E h \in Headers : DoctorProfilePut(h, "new@x.com", "L1")
  \/ \E h \in Headers : PatientsWithAppointments(h)
  \/ \E h \in Headers : AvailableSlots(h, GateNow)
  \/ \E h \in Headers :
       ScheduleAppointment(h, 1, GateNow, "10:00 AM", "checkup") /\ CapGate'
  \/ \E h \in Headers : PrescribeMedication(h, 1, SomeFields) /\ CapGate'
  \/ \E h \in Headers : PrescriptionsGet(h)
  \/ \E h \in Headers : PrescriptionsByPatient(h, 1)
  \/ \E h \in Headers : PrescriptionPut(h, 1, OtherFields)
  \/ \E h \in Headers : PrescriptionDelete(h, 1)
  \/ \E h \in Headers : AppointmentsToday(h)
  \/ \E h \in Headers, st \in {"completed", "bogus"} : AppointmentStatus(h, 1, st)
  \/ \E h \in Headers : AppointmentsCompleted(h)
  \/ \E h \in Headers : AppointmentsUpcoming(h)

SpecGate == InitGate /\ [][NextGate]_vars

-----------------------------------------------------------------------------
(* The doctor router, on a running server where two doctors have logged in *)

DoctorTokens ==
  {jwtSign(11, "doctor", Secret, LoginTTL, 0),
   jwtSign(12, "doctor", Secret, LoginTTL, 0)}

InitDoctor ==
  /\ started = TRUE
  /\ jwtSecret = Secret
  /\ now = GateNow
  /\ users = Patients
  /\ doctors = Doctors
  /\ admins = {RootAdmin}
  /\ appointments = <<>>
  /\ prescriptions = <<>>
  /\ tokens = DoctorTokens
  /\ seeder = "idle"
  /\ resp = NoResp
  /\ failures = {}
  /\ pending = NoPending

CapDoctor ==
  /\ Len(appointments) <= MaxAppts
  /\ Len(prescriptions) <= MaxRx

PatientIds == {1}
AppointmentIds == 1 .. (MaxAppts + 1)
PrescriptionIds == 1 .. (MaxRx + 1)
Statuses == {"scheduled", "completed", "cancelled", "bogus"}

NextDoctor ==
  \/ Deliver
  \/ DoctorAll
  \/ \E h \in Held : DoctorProfileGet(h)
  \/ \E h \in Held : DoctorProfilePut(h, "new@x.com", "L1")
  \/ \E h \in Held : PatientsWithAppointments(h)
  \/ \E h \in Held : AvailableSlots(h, GateNow)
  \/ \E h \in Held, p \in PatientIds :
       ScheduleAppointment(h, p, GateNow, "10:00 AM", "checkup") /\ CapDoctor'
  \/ \E h \in Held : PrescribeMedication(h, 1, SomeFields) /\ CapDoctor'
  \/ \E h \in Held : PrescriptionsGet(h)
  \/ \E h \in Held, p \in PatientIds : PrescriptionsByPatient(h, p)
  \/ \E h \in Held, i \in PrescriptionIds : PrescriptionPut(h, i, OtherFields)
  \/ \E h \in Held, i \in PrescriptionIds : PrescriptionDelete(h, i)
  \/ \E h \in Held : AppointmentsToday(h)
  \/ \E h \in Held, i \in AppointmentIds, st \in Statuses :
       AppointmentStatus(h, i, st)
  \/ \E h \in Held : AppointmentsCompleted(h)
  \/ \E h \in Held : AppointmentsUpcoming(h)

SpecDoctor == InitDoctor /\ [][NextDoctor]_vars

-----------------------------------------------------------------------------
(* The life of a token: logins in the first hours of a running server, the *)
(* clock, and the two auth middlewares reading the tokens back.            *)

InitToken ==
  /\ started = TRUE
  /\ jwtSecret = Secret
  /\ now = 0
  /\ users = Patients
  /\ doctors = Doctors
  /\ admins = {RootAdmin}
  /\ appointments = <<>>
  /\ prescriptions = <<>>
  /\ tokens = {}
  /\ seeder = "idle"
  /\ resp = NoResp
  /\ failures = {}
  /\ pending = NoPending

CapToken == Cardinality(tokens) <= MaxTokens

TokenEmails == {"pat@x.com", "doc1@x.com", "root@x.com"}

NextToken ==
  \/ Deliver
  \/ Tick /\ now < MaxClock
  \/ \E e \in TokenEmails, r \in Roles :
       Login(e, "pw", r) /\ now <= MaxIssueTime /\ CapToken'
  \/ \E e \in TokenEmails :
       AdminLogin(e, "pw") /\ now <= MaxIssueTime /\ CapToken'
  \/ \E h \in Held : AdminProfileGet(h)
  \/ \E h \in Held : DoctorProfileGet(h)

SpecToken == InitToken /\ [][NextToken]_vars

-----------------------------------------------------------------------------
(* The slots of a day: a store where doctor 11 already has any set of the  *)
(* canonical times of one day booked, latest first, and a few walk-ins of  *)
(* either doctor on either day after that.                                 *)

SlotDates == {GateNow, GateNow + 24}

Booked(S) ==
  LET slots == Natural(S)
      n == Len(slots)
  IN [k \in 1 .. n |->
        Appointment(1, 11, GateNow, allTimeSlots[slots[n + 1 - k]], "checkup",
                    DefaultStatus)]

InitSlots ==
  /\ started = TRUE
  /\ jwtSecret = Secret
  /\ now = GateNow
  /\ users = Patients
  /\ doctors = Doctors
  /\ admins = {RootAdmin}
  /\ \E S \in SUBSET DOMAIN allTimeSlots : appointments = Booked(S)
  /\ prescriptions = <<>>
  /\ tokens = DoctorTokens
  /\ seeder = "idle"
  /\ resp = NoResp
  /\ failures = {}
  /\ pending = NoPending

WalkIns == {i \in Ids(appointments) : appointments[i].reason = "walk-in"}

CapSlots == Cardinality(WalkIns) <= MaxWalkIns

NextSlots ==
  \/ Deliver
  \/ \E h \in Held, d \in SlotDates : AvailableSlots(h, d)
  \/ \E h \in Held, d \in SlotDates, t \in {"12:00 PM", OtherTime} :
       ScheduleAppointment(h, 1, d, t, "walk-in") /\ CapSlots'

SpecSlots == InitSlots /\ [][NextSlots]_vars

-----------------------------------------------------------------------------
(* Prescriptions in flight: requests of the two doctors on several         *)
(* connections, their steps interleaved, on a store that may already hold  *)
(* a prescription.                                                         *)

InitRx ==
  /\ started = TRUE
  /\ jwtSecret = Secret
  /\ now = GateNow
  /\ users = Patients
  /\ doctors = Doctors
  /\ admins = {RootAdmin}
  /\ appointments = <<>>
  /\ prescriptions \in {<<>>, <<Prescription(1, 11, SomeFields)>>}
  /\ tokens = DoctorTokens
  /\ seeder = "idle"
  /\ resp = NoResp
  /\ failures = {}
  /\ pending = NoPending

NextRx ==
  \/ \E s \in Slots, h \in Held, p \in {1, 2}, f \in {SomeFields, OtherFields} :
       PrescribeBegin(s, h, p, f)
  \/ \E s \in Slots : PrescribeSave(s)
  \/ \E s \in Slots : PrescribeRespond(s)

SpecRx == InitRx /\ [][NextRx]_vars

-----------------------------------------------------------------------------
(* Visits: the two doctors book the two patients on days before, at and    *)
(* after the clock, and read their patient lists.                          *)

VisitDates == {0, 1, GateNow, GateNow + 1}

NextVisits ==
  \/ Deliver
  \/ \E h \in Held, p \in {1, 2}, d \in VisitDates :
       ScheduleAppointment(h, p, d, "10:00 AM", "checkup") /\ CapDoctor'
  \/ \E h \in Held : PatientsWithAppointments(h)

SpecVisits == InitDoctor /\ [][NextVisits]_vars

-----------------------------------------------------------------------------
(* The life of an appointment: every guarded route of the two routers, and *)
(* schedule requests whose body names another doctor.                      *)

NextLife ==
  \/ NextGate
  \/ \E h \in Held :
       ScheduleRequest(h, ScheduleBody(12, 2, 0, "11:00 AM", "follow-up"))
         /\ CapGate'
  \/ \E h \in Held : AppointmentStatus(h, 1, "cancelled")

SpecLife == InitGate /\ [][NextLife]_vars

-----------------------------------------------------------------------------
(* Properties *)

\* this step serves a request: it puts a response on the wire
Served == resp = NoResp /\ resp' # NoResp

LoginRoute == "POST /api/login"

\* C1: POST /api/login succeeds, with a token for the account, for every
\* (email, password, role) of a stored account; it fails for such a triple
\* with one field changed; and every such failure has one and the same
\* status and error body.
C1_LoginGenericError ==
  [][(Served /\ resp'.route = LoginRoute) =>
       LET q == resp'.req IN
       /\ (Matches(q.email, q.password, q.role)
             /\ Account(q.email, q.role).password.kind = "bcrypt"
             /\ jwtSecret # NoSecret) =>
            /\ resp'.status = 200
            /\ resp'.body.token \in tokens'
            /\ resp'.body.token.id = Account(q.email, q.role).id
            /\ resp'.body.token.role = q.role
       /\ Mutated(q.email, q.password, q.role) => resp'.status # 200
       /\ Cardinality(failures') <= 1]_vars

\* the admin records with the seed email
SeedAdmins == {a \in admins : a.email = SeedEmail}

\* C10: once the server has started there is exactly one admin record with
\* the seed email, however many times the seeder has run.
C10_SeededOnStart == started => Cardinality(SeedAdmins) = 1

AddDoctorRoute == "POST /api/admin/add-doctor"
AddAdminRoute == "POST /api/admin/add-admin"

\* C4: add-doctor and add-admin called with a valid token whose role is not
\* admin answer 403 and create nothing; a served request creates a Doctor
\* record only on add-doctor, and an Admin record only on add-admin, and
\* only when the role of its token is admin.
C4_AdminOnlyCreation ==
  [][Served =>
       /\ (resp'.route \in {AddDoctorRoute, AddAdminRoute}
             /\ resp'.ran /\ resp'.user.role # "admin") =>
            resp'.status = 403 /\ doctors' = doctors /\ admins' = admins
       /\ (doctors' \ doctors) # {} =>
            /\ resp'.route = AddDoctorRoute
            /\ resp'.user.role = "admin"
            /\ resp'.req.header.token \in tokens
       /\ (admins' \ admins) # {} =>
            /\ resp'.route \in {AddAdminRoute, "PUT /api/admin/profile"}
            /\ resp'.user.role = "admin"
            /\ resp'.req.header.token \in tokens
       /\ Cardinality(admins') > Cardinality(admins) =>
            resp'.route = AddAdminRoute]_vars

\* C4 witness: a patient's valid token was refused by add-doctor
C4_PatientRefused ==
  /\ resp.route = AddDoctorRoute
  /\ resp.status = 403
  /\ resp.user.role = "patient"
  /\ resp.req.header.token \in tokens

\* the routes that are mounted without the auth middleware
OpenRoutes == {LoginRoute, "POST /api/admin/login", "GET /api/doctor/all"}

\* the server issued this token and it has not expired
Genuine(token) == token \in tokens /\ now < token.exp

\* C3: on a guarded route a request without an Authorization header gets
\* 401 'No token provided', and one whose token was not issued by the
\* server, or has expired, gets 401 'Invalid token'; in both cases the
\* handler does not run and the store is unchanged.  A handler runs only
\* with req.user holding the id and role of an issued, unexpired token.
C3_AuthGate ==
  [][(Served /\ resp'.route \notin OpenRoutes) =>
       LET h == resp'.req.header IN
       /\ ~h.present =>
            /\ resp'.status = 401 /\ resp'.error = "No token provided"
            /\ ~resp'.ran /\ store' = store
       /\ (h.present /\ ~h.empty /\ ~Genuine(h.token)) =>
            /\ resp'.status = 401 /\ resp'.error = "Invalid token"
            /\ ~resp'.ran /\ store' = store
       /\ resp'.ran =>
            /\ Genuine(h.token)
            /\ resp'.user.id = h.token.id
            /\ resp'.user.role = h.token.role]_vars

\* C3 witness: a doctor route refused the admin token that had expired,
\* with documents in the store
C3_ExpiredRefused ==
  /\ resp.route = "DELETE /api/doctor/prescriptions/:id"
  /\ resp.status = 401
  /\ resp.error = "Invalid token"
  /\ resp.req.header.token \in tokens
  /\ resp.req.header.token.exp <= now
  /\ Len(prescriptions) > 0

TotalDoctorsRoute == "GET /api/admin/total-doctors"

DoctorOnlyRoutes ==
  {"GET /api/doctor/profile", "POST /api/doctor/schedule-appointment",
   "PATCH /api/doctor/appointment/:appointmentId/:status"}

\* C5: total-doctors answers with the count only to a token of role admin,
\* and the doctor routes of the table succeed only for a token of role
\* doctor.
C5_RoleRequired ==
  /\ (resp.route = TotalDoctorsRoute /\ resp.status = 200) =>
       resp.user.role = "admin"
  /\ (resp.route \in DoctorOnlyRoutes /\ resp.status \in {200, 201}) =>
       resp.user.role = "doctor"

PatchRoute == "PATCH /api/doctor/appointment/:appointmentId/:status"
RxPutRoute == "PUT /api/doctor/prescriptions/:id"
RxDeleteRoute == "DELETE /api/doctor/prescriptions/:id"

StatusSet == {"scheduled", "completed", "cancelled"}

\* the request names an appointment of another doctor than the caller
ForeignAppointment ==
  /\ resp'.route = PatchRoute
  /\ resp'.req.appointmentId \in Ids(appointments)
  /\ appointments[resp'.req.appointmentId].doctorId # resp'.user.id

\* the request names a prescription of another doctor than the caller
ForeignPrescription ==
  /\ resp'.route \in {RxPutRoute, RxDeleteRoute}
  /\ resp'.req.id \in Ids(prescriptions)
  /\ prescriptions[resp'.req.id].exists
  /\ prescriptions[resp'.req.id].doctorId # resp'.user.id

\* an appointment's status, or a prescription's fields or existence, changes
\* only in a step that serves a request of the record's own doctor
OwnerWrites ==
  /\ \A i \in Ids(appointments) :
       appointments'[i].status # appointments[i].status =>
         Served /\ resp'.user.id = appointments[i].doctorId
  /\ \A i \in Ids(prescriptions) :
       prescriptions'[i] # prescriptions[i] =>
         Served /\ resp'.user.id = prescriptions[i].doctorId
  /\ \A i \in Ids(prescriptions') \ Ids(prescriptions) :
       Served /\ resp'.user.id = prescriptions'[i].doctorId

\* C6, as claimed: a PATCH, PUT or DELETE that names an existing record of
\* another doctor answers 404 and leaves the record as it is, and records
\* change only through requests of their own doctor.
C6_ForeignIs404 ==
  [][/\ (Served /\ resp'.ran /\ (ForeignAppointment \/ ForeignPrescription)) =>
          resp'.status = 404 /\ store' = store
     /\ OwnerWrites]_vars

\* C6, amended: the same, except that a PATCH with a status outside
\* {scheduled, completed, cancelled} answers 400 (for a foreign appointment
\* as for one that does not exist); the answer is never 403 and the store is
\* unchanged.
C6_ForeignUnchanged ==
  [][/\ (Served /\ resp'.ran /\ ForeignPrescription) =>
          resp'.status = 404 /\ store' = store
     /\ (Served /\ resp'.ran /\ ForeignAppointment) =>
          /\ resp'.status = IF resp'.req.status \in StatusSet THEN 404 ELSE 400
          /\ store' = store
     /\ (Served /\ resp'.ran /\ resp'.route = PatchRoute
           /\ resp'.req.appointmentId \notin Ids(appointments)) =>
          resp'.status = IF resp'.req.status \in StatusSet THEN 404 ELSE 400
     /\ OwnerWrites]_vars

\* C6 witness: a doctor's PATCH with a valid status on another doctor's
\* appointment was answered 404
C6_ForeignPatched ==
  /\ resp.route = PatchRoute
  /\ resp.status = 404
  /\ resp.req.appointmentId \in Ids(appointments)
  /\ appointments[resp.req.appointmentId].doctorId # resp.user.id
  /\ appointments[resp.req.appointmentId].status # resp.req.status

\* C8: a PATCH with a status outside {scheduled, completed, cancelled}
\* answers 400 and writes nothing, so every stored status is one of the
\* three.
C8_StatusValidated ==
  [][/\ (Served /\ resp'.ran /\ resp'.route = PatchRoute
           /\ resp'.req.status \notin StatusSet) =>
          resp'.status = 400 /\ store' = store
     /\ \A i \in Ids(appointments') : appointments'[i].status \in StatusSet]_vars

\* C8 witness: the owner's PATCH with the status 'bogus' was answered 400
C8_BogusRefused ==
  /\ resp.route = PatchRoute
  /\ resp.status = 400
  /\ resp.req.status = "bogus"
  /\ resp.req.appointmentId \in Ids(appointments)
  /\ appointments[resp.req.appointmentId].doctorId = resp.user.id

\* C9: a successful PATCH by the owner sets the status and changes nothing
\* else; applied to an appointment that already has that status (as a
\* second application is) it changes nothing at all, and the caller still
\* passes the filter, so any number of applications leave the store as one
\* does.
C9_StatusIdempotent ==
  [][(Served /\ resp'.route = PatchRoute /\ resp'.status = 200) =>
       LET id == resp'.req.appointmentId
           s == resp'.req.status
       IN
       /\ id \in Ids(appointments)
       /\ appointments[id].doctorId = resp'.user.id
       /\ Len(appointments') = Len(appointments)
       /\ appointments'[id].status = s
       /\ \A f \in {"patientId", "doctorId", "date", "time", "reason"} :
            appointments'[id][f] = appointments[id][f]
       /\ \A j \in Ids(appointments) \ {id} : appointments'[j] = appointments[j]
       /\ UNCHANGED <<users, doctors, admins, prescriptions>>
       /\ appointments[id].status = s => appointments' = appointments
       /\ SetStatus(appointments', id, s) = appointments']_vars

\* C9 witness: the owner's PATCH to 'cancelled' was answered 200 with two
\* appointments stored
C9_Cancelled ==
  /\ resp.route = PatchRoute
  /\ resp.status = 200
  /\ resp.req.status = "cancelled"
  /\ Len(appointments) = 2
  /\ appointments[resp.req.appointmentId].status = "cancelled"

AdminLoginRoute == "POST /api/admin/login"
VerifyingRoutes == {"GET /api/admin/profile", "GET /api/doctor/profile"}

\* C2: a login answers with a token for the id and role of the account
\* that logged in, expiring 24 hours after issue on /api/login and 1 hour
\* after issue on /api/admin/login; an auth middleware given an issued token
\* sets req.user to exactly the id and role of the token while the clock is
\* before the expiry, and answers 401 from the expiry on.
C2_TokenRoundTrip ==
  [][/\ (Served /\ resp'.route = LoginRoute /\ resp'.status = 200) =>
          LET t == resp'.body.token
              q == resp'.req
          IN /\ t.iat = now /\ t.exp = now + 24
             /\ t.id = Account(q.email, q.role).id /\ t.role = q.role
     /\ (Served /\ resp'.route = AdminLoginRoute /\ resp'.status = 200) =>
          LET t == resp'.body.token
          IN /\ t.iat = now /\ t.exp = now + 1
             /\ t.role = "admin"
             /\ \E a \in admins : a.id = t.id /\ a.email = resp'.req.email
     /\ (Served /\ resp'.route \in VerifyingRoutes
           /\ resp'.req.header.present /\ resp'.req.header.token \in tokens) =>
          LET t == resp'.req.header.token
          IN IF now < t.exp
             THEN /\ resp'.ran
                  /\ resp'.user.id = t.id /\ resp'.user.role = t.role
             ELSE /\ ~resp'.ran
                  /\ resp'.status = 401]_vars

\* C2 witness: the doctor router refused, 24 hours or more after its issue,
\* a token that /api/login had issued
C2_DayOldRefused ==
  /\ resp.route = "GET /api/doctor/profile"
  /\ resp.status = 401
  /\ resp.req.header.token \in tokens
  /\ resp.req.header.token.exp = resp.req.header.token.iat + 24
  /\ now >= resp.req.header.token.iat + 24

SlotsRoute == "GET /api/doctor/available-slots"

CanonicalSlots ==
  <<"10:00 AM", "11:00 AM", "12:00 PM", "1:00 PM", "2:00 PM", "3:00 PM",
    "4:00 PM", "5:00 PM">>

Range(seq) == {seq[i] : i \in DOMAIN seq}

\* the times of the caller's appointments on the date of the request
BookedTimes ==
  {appointments[i].time :
     i \in {j \in Ids(appointments) :
              /\ appointments[j].doctorId = resp'.user.id
              /\ appointments[j].date = resp'.req.date}}

\* the place of a canonical time in the canonical list
Place(time) == CHOOSE i \in DOMAIN CanonicalSlots : CanonicalSlots[i] = time

\* seq lists elements of the canonical list in the order of that list
InCanonicalOrder(seq) ==
  /\ Range(seq) \subseteq Range(CanonicalSlots)
  /\ \A i, j \in DOMAIN seq : i < j => Place(seq[i]) < Place(seq[j])

\* the answer is the canonical list minus the booked times, in canonical
\* order: all 8 with no booking, none with all 8 booked
SlotsAnswer ==
  /\ Range(resp'.body) = Range(CanonicalSlots) \ BookedTimes
  /\ InCanonicalOrder(resp'.body)
  /\ BookedTimes = {} => resp'.body = CanonicalSlots
  /\ Range(CanonicalSlots) \subseteq BookedTimes => resp'.body = <<>>

\* C7, as claimed: the answer of GET /doctor/available-slots is the
\* canonical list minus the times of the doctor's appointments on the date,
\* in canonical order, and is a strict subset of the canonical list.
C7_SlotsStrictSubset ==
  [][(Served /\ resp'.route = SlotsRoute /\ resp'.status = 200) =>
       /\ SlotsAnswer
       /\ Range(resp'.body) # Range(CanonicalSlots)]_vars

\* C7, amended: the answer is the canonical list minus the times of the
\* doctor's appointments on the date, in canonical order; it is a subset of
\* the canonical list, and leaves a slot out exactly when some canonical
\* time is booked.
C7_SlotsSubset ==
  [][(Served /\ resp'.route = SlotsRoute /\ resp'.status = 200) =>
       /\ SlotsAnswer
       /\ Range(resp'.body) \subseteq Range(CanonicalSlots)
       /\ Range(resp'.body) # Range(CanonicalSlots) <=>
            BookedTimes \cap Range(CanonicalSlots) # {}]_vars

\* C7 witness: with 3:00 PM booked before 11:00 AM for the caller, a
\* non-canonical time booked too and another doctor's booking at 12:00 PM,
\* the answer lists the six other slots
C7_SixLeft ==
  /\ resp.route = SlotsRoute
  /\ resp.status = 200
  /\ resp.user.id = 11
  /\ resp.req.date = GateNow
  /\ Len(resp.body) = 6
  /\ Len(appointments) = 4
  /\ appointments[1].time = "3:00 PM"
  /\ appointments[2].time = "11:00 AM"
  /\ \E i, j \in Ids(appointments) :
       /\ appointments[i].doctorId = 11 /\ appointments[i].time = OtherTime
       /\ appointments[i].date = GateNow
       /\ appointments[j].doctorId = 12 /\ appointments[j].time = "12:00 PM"
       /\ appointments[j].date = GateNow

\* the seeder has created the default admin
Seeded == \E a \in admins : a = SeedAdmin(a.id)

\* C11: once the seeder has created the default admin, a login as admin
\* with the seed email and the seed password, on either login route,
\* answers 200 with a token whose role is admin.
C11_SeedAdminLogin ==
  [][(/\ Served
      /\ resp'.route \in {LoginRoute, AdminLoginRoute}
      /\ Seeded
      /\ jwtSecret # NoSecret
      /\ resp'.req.email = SeedEmail
      /\ resp'.req.password = SeedPassword
      /\ resp'.req.role = "admin") =>
       /\ resp'.status = 200
       /\ resp'.body.token.role = "admin"]_vars

\* the request on connection s carries a token the server issued
Authentic(s) ==
  /\ pending[s].pc # "idle"
  /\ pending[s].req.header.present
  /\ pending[s].req.header.token \in tokens

\* the insert of the request on connection s has been performed
Inserted(s) == Authentic(s) /\ pending[s].pc \in {"saved", "done"}

\* the record of the request on connection s is stored as it was sent
Persisted(s) ==
  LET q == pending[s].req
      id == pending[s].id
  IN /\ id \in Ids(prescriptions)
     /\ prescriptions[id].exists
     /\ prescriptions[id].patientId = q.patientId
     /\ prescriptions[id].doctorId = q.header.token.id
     /\ prescriptions[id].medication = q.fields.medication
     /\ prescriptions[id].dosage = q.fields.dosage
     /\ prescriptions[id].frequency = q.fields.frequency
     /\ prescriptions[id].tilldate = q.fields.tilldate

\* C12: however the steps of prescribe-medication requests interleave,
\* every request with an issued token is answered 201, its record is stored
\* as sent, and two requests never share a record: with the same doctor,
\* patient and fields too, they persist as two records.
C12_BothPersist ==
  /\ \A s \in Slots :
       (Authentic(s) /\ pending[s].pc = "done") => pending[s].status = 201
  /\ \A s \in Slots : Inserted(s) => Persisted(s)
  /\ \A s, t \in Slots :
       (s # t /\ Inserted(s) /\ Inserted(t)) => pending[s].id # pending[t].id
  /\ Len(prescriptions) >= Cardinality({s \in Slots : Inserted(s)})

\* C12 witness: two requests of doctor 11 for patient 1 with the same
\* fields as a prescription already stored were both answered 201, the
\* second to begin being the first to be saved
C12_TwoIdentical ==
  /\ Len(prescriptions) = 3
  /\ prescriptions[1] = prescriptions[2]
  /\ prescriptions[2] = prescriptions[3]
  /\ \A s \in {1, 2} :
       /\ pending[s].pc = "done"
       /\ pending[s].status = 201
       /\ pending[s].req.header.token.id = 11
       /\ pending[s].req.patientId = 1
  /\ pending[1].id = 3
  /\ pending[2].id = 2

PatientsRoute == "GET /api/doctor/patients-with-appointments"

\* the dates of the caller's appointments with the patient
VisitsOf(patientId) ==
  {appointments[i].date :
     i \in {j \in Ids(appointments) :
              /\ appointments[j].doctorId = resp'.user.id
              /\ appointments[j].patientId = patientId}}

Latest(dates) ==
  IF dates = {} THEN 0 - 1 ELSE CHOOSE d \in dates : \A e \in dates : e <= d

Earliest(dates) ==
  IF dates = {} THEN 0 - 1 ELSE CHOOSE d \in dates : \A e \in dates : d <= e

\* C13: the answer of patients-with-appointments has one entry for each
\* patient with an appointment with the caller; its lastVisit is the latest
\* of the caller's appointment dates with the patient before now and its
\* nextAppointment the earliest of those at or after now (null, here -1,
\* when there is none).
C13_LastAndNext ==
  [][(Served /\ resp'.route = PatientsRoute /\ resp'.status = 200) =>
       resp'.body =
         {[id |-> u.id,
           lastVisit |-> Latest({d \in VisitsOf(u.id) : d < now}),
           nextAppointment |-> Earliest({d \in VisitsOf(u.id) : d >= now})] :
            u \in {v \in users : v.role = "patient" /\ VisitsOf(v.id) # {}}}]_vars

ScheduleRoute == "POST /api/doctor/schedule-appointment"

KeptFields == {"patientId", "doctorId", "date", "time", "reason"}

\* C14: in every step every stored appointment stays stored with its
\* patientId, doctorId, date, time and reason; an appointment appears only
\* by a 201 of schedule-appointment, with the doctorId of the token and the
\* other fields of the body; and an appointment changes only by a 200 of
\* the status transition.
C14_AppointmentKept ==
  [][/\ Len(appointments') >= Len(appointments)
     /\ \A i \in Ids(appointments) : \A f \in KeptFields :
          appointments'[i][f] = appointments[i][f]
     /\ \A i \in Ids(appointments') \ Ids(appointments) :
          /\ Served
          /\ resp'.route = ScheduleRoute /\ resp'.status = 201
          /\ appointments'[i].doctorId = resp'.req.header.token.id
          /\ appointments'[i].patientId = resp'.req.patientId
          /\ appointments'[i].date = resp'.req.date
          /\ appointments'[i].time = resp'.req.time
          /\ appointments'[i].reason = resp'.req.reason
     /\ (\E i \in Ids(appointments) : appointments'[i] # appointments[i]) =>
          Served /\ resp'.route = PatchRoute /\ resp'.status = 200]_vars

\* C14 witness: the appointment that doctor 11 scheduled with a body naming
\* doctor 12 is stored under doctor 11, with the fields of the body, after
\* its status was set to cancelled
C14_CancelledKept ==
  /\ resp.route = PatchRoute
  /\ resp.status = 200
  /\ Len(appointments) = 1
  /\ appointments[1] =
       [patientId |-> 2, doctorId |-> 11, date |-> 0, time |-> "11:00 AM",
        reason |-> "follow-up", status |-> "cancelled"]

=============================================================================
